---- MODULE Spec2Model ----
(***************************************************************************)
(* WalletConnectWalletAdapter (packages/core/wallets/src/types.ts).        *)
(*                                                                         *)
(* The adapter is a single object driven by asynchronous calls.  Each call *)
(* is a slot of `calls` with a position `pc`: a call runs synchronously    *)
(* up to its next await, is suspended there while the SDK works, and is    *)
(* resumed by the SDK's answer (success or failure).  JavaScript runs a    *)
(* synchronous segment to completion, so an action is one such segment.    *)
(* A segment of connect ends where it emits its notification; the state    *)
(* after that action is the state the listeners of the notification see,   *)
(* and `running` names the call whose finally block is still to run.  The  *)
(* listeners run synchronously inside emit: they can call the adapter's    *)
(* public methods there, each such call running up to its first await,     *)
(* but no suspended call is resumed and no SDK event is delivered before   *)
(* the finally block has run.  The other calls change nothing after their  *)
(* notifications, so a call made by one of their listeners finds the       *)
(* adapter as a call made right after them does.                           *)
(*                                                                         *)
(* The SDK is the environment.  Its answers (resolve or reject, the        *)
(* session, the address, the execution result) are chosen freely where the *)
(* adapter reads them, with one restriction: an SDK instance can hold a    *)
(* session only once a connect on it has resolved (`handshaken`).  The     *)
(* remote wallet can delete the session at any time, so a handshaken       *)
(* instance may or may not hold one when `session` is read.                *)
(***************************************************************************)
EXTENDS Integers, Sequences, FiniteSets, TLC

VARIABLES _address, _connecting, _sdk, calls, running, handshaken

vars == <<_address, _connecting, _sdk, calls, running, handshaken>>

\* Number of calls (connect, disconnect, invocations, session-deletion
\* events) issued in one behaviour.
MaxCalls == 3

CallIds == 1..MaxCalls

\* `null` of _address and `undefined` of _sdk.  A value of type string | null
\* is null or String(s), so that no string is taken for null.
null == [null |-> TRUE]
String(s) == [string |-> s]
undefined == 0

\* An SDK instance is named by the connect call that created it.
\* The account address the SDK reports for a session: a string, the empty one
\* included.
Addresses == {String("NAddr1"), String("")}

\* !!value for a value of type string | null
ToBoolean(value) == value # null /\ value # String("")

\* Failures the SDK can reject or throw with: a plain Error, or a value that
\* is already an instance of WalletError.
SdkFailures == {"Error", "WalletError"}

\* Failures an invocation method of the SDK can reject with; the invocation
\* calls treat every failure alike.
InvokeFailures == {"Error"}

\* Failures subscribeToEvents can throw; connect passes every one of them on
\* as it is.
SubscribeFailures == {"Error"}

WalletErrors == {"WalletError", "WalletConnectionError", "WalletAccountError",
                 "WalletDisconnectionError", "WalletDisconnectedError",
                 "WalletNotConnectedError"}

NoError == "none"

\* error instanceof WalletError
IsWalletError(error) == error \in WalletErrors

\* Remote execution results (RpcCallResult.result) the SDK can answer with.
NoErrorObject == [absent |-> TRUE]
Responses ==
    { [result |-> [state |-> "HALT", stack |-> "s1", error |-> NoErrorObject]],
      [result |-> [state |-> "FAULT", stack |-> "s0",
                   error |-> [message |-> "m", code |-> 7]]],
      [result |-> [state |-> "FAULT", stack |-> "s0", error |-> NoErrorObject]] }

NoResult == [status |-> "none"]
NoResponse == [absent |-> TRUE]

\* get connecting()
connecting == _connecting

\* get connected(): !!this._address
connected == ToBoolean(_address)

\* this.emit(name, arg) appended to the notifications of the call that emits.
Emit(c, name, arg) == [c EXCEPT !.events = Append(@, [name |-> name, arg |-> arg])]

\* A call into the SDK, recorded on the call that makes it.
SdkCall(c, method) == [c EXCEPT !.sdkCalls = Append(@, method)]

\* A slot not yet used.  `sdk` is the call's local `const sdk`, `error` the
\* failure it raises, `cause` the value first thrown and `step` the step of
\* connect that threw it, `pre` the adapter as it was when the call was made,
\* `response` the SDK's answer to an invocation and `result` what is returned.
IdleCall == [op |-> "none", pc |-> "idle", sdk |-> undefined, error |-> NoError,
             step |-> "none", cause |-> NoError,
             events |-> <<>>, sdkCalls |-> <<>>, outcome |-> "pending",
             response |-> NoResponse, result |-> NoResult,
             pre |-> [connected |-> FALSE, connecting |-> FALSE]]

\* The adapter's readable state as the caller sees it when it makes a call.
Snapshot == [connected |-> connected, connecting |-> connecting]

NewCall(op) == [IdleCall EXCEPT !.op = op, !.pre = Snapshot]

\* constructor
Init ==
    /\ _address = null
    /\ _connecting = FALSE
    /\ _sdk = undefined
    /\ calls = [i \in CallIds |-> IdleCall]
    /\ running = 0
    /\ handshaken = {}

\* Slots are used in order.  A public method can be called between
\* synchronous segments or by a listener of the notification that the running
\* connect call has just emitted.
CanIssue(i) ==
    /\ calls[i].pc = "idle"
    /\ \A j \in CallIds : j < i => calls[j].pc # "idle"

\* The SDK delivers an event only between synchronous segments.
CanDeliver(i) ==
    /\ running = 0
    /\ CanIssue(i)

CanResume(i, op, pc) ==
    /\ running = 0
    /\ calls[i].op = op
    /\ calls[i].pc = pc

\* catch (error) { this.emit('error', error); throw error; } of connect: the
\* error is emitted and the call is left before its finally block.
ConnectCatch(c, step, cause, error) ==
    [Emit(c, "error", error) EXCEPT !.error = error, !.pc = "finally",
                                    !.step = step, !.cause = cause]

\* The inner catch around initClient and connect.
WrapConnectionError(error) ==
    IF IsWalletError(error) THEN error ELSE "WalletConnectionError"

\* ConnectGuard with the test of `connecting` forgotten.
ConnectGuardConnectedOnly == connected

\* if (this.connected || this.connecting) return;
ConnectGuard == connected \/ connecting

\* connect(), from the call to the first await, or through `return` and the
\* finally block when the guard holds.
connect(i) ==
    /\ CanIssue(i)
    /\ IF ConnectGuard
       THEN /\ _connecting' = FALSE
            /\ calls' = [calls EXCEPT ![i] =
                   [NewCall("connect") EXCEPT !.pc = "done", !.outcome = "resolved"]]
            /\ UNCHANGED <<_address, _sdk, running, handshaken>>
       ELSE /\ _connecting' = TRUE
            /\ _sdk' = i
            /\ calls' = [calls EXCEPT ![i] =
                   [SdkCall(SdkCall(NewCall("connect"), "new"), "initClient")
                       EXCEPT !.pc = "initClient"]]
            /\ UNCHANGED <<_address, running, handshaken>>

\* connect(), resumed when initClient settles, to the next await.
connectInitClientSettled(i) ==
    /\ CanResume(i, "connect", "initClient")
    /\ \/ \E failure \in SdkFailures :
            \* initClient rejects
            /\ calls' = [calls EXCEPT ![i] =
                   ConnectCatch(@, "initClient", failure, WrapConnectionError(failure))]
            /\ running' = i
       \/ /\ _sdk = undefined
          \* this._sdk.connect on undefined: a TypeError inside the inner try
          /\ calls' = [calls EXCEPT ![i] =
                 ConnectCatch(@, "_sdk", "TypeError", WrapConnectionError("TypeError"))]
          /\ running' = i
       \/ /\ _sdk # undefined
          /\ calls' = [calls EXCEPT ![i] =
                 [SdkCall(@, "connect") EXCEPT !.sdk = _sdk, !.pc = "connect"]]
          /\ running' = running
    /\ UNCHANGED <<_address, _connecting, _sdk, handshaken>>

\* connect(), resumed when the handshake settles, up to the notification.
connectHandshakeSettled(i) ==
    /\ CanResume(i, "connect", "connect")
    /\ running' = i
    /\ \/ \E failure \in SdkFailures :
            \* connect rejects
            /\ calls' = [calls EXCEPT ![i] =
                   ConnectCatch(@, "connect", failure, WrapConnectionError(failure))]
            /\ UNCHANGED <<_address, handshaken>>
       \/ /\ _sdk = undefined
          /\ handshaken' = handshaken \cup {calls[i].sdk}
          \* this._sdk.session on undefined, outside the inner try
          /\ calls' = [calls EXCEPT ![i] =
                 ConnectCatch(@, "_sdk", "TypeError", "TypeError")]
          /\ UNCHANGED _address
       \/ /\ _sdk # undefined
          /\ handshaken' = handshaken \cup {calls[i].sdk}
          /\ \E session \in IF _sdk \in handshaken' THEN BOOLEAN ELSE {FALSE} :
               IF ~session
               THEN /\ calls' = [calls EXCEPT ![i] =
                           ConnectCatch(@, "session", "WalletAccountError",
                                        "WalletAccountError")]
                    /\ UNCHANGED _address
               ELSE \/ \* getAccountAddress throws
                       /\ calls' = [calls EXCEPT ![i] =
                              ConnectCatch(SdkCall(@, "getAccountAddress"),
                                           "getAccountAddress", "Error",
                                           "WalletAccountError")]
                       /\ UNCHANGED _address
                    \/ \E address \in Addresses :
                         /\ _address' = address
                         /\ \/ \E failure \in SubscribeFailures :
                                 \* subscribeToEvents throws
                                 calls' = [calls EXCEPT ![i] =
                                     ConnectCatch(SdkCall(SdkCall(@, "getAccountAddress"),
                                                          "subscribeToEvents"),
                                                  "subscribeToEvents", failure, failure)]
                            \/ calls' = [calls EXCEPT ![i] =
                                   [Emit(SdkCall(SdkCall(@, "getAccountAddress"),
                                                 "subscribeToEvents"), "connect", NoError)
                                       EXCEPT !.pc = "finally"]]
    /\ UNCHANGED <<_connecting, _sdk>>

\* connectFinally with the flag cleared on the success path only, as if the
\* assignment stood at the end of the try block instead of in `finally`.
connectFinallyOnSuccessOnly(i) ==
    /\ running = i
    /\ calls[i].op = "connect"
    /\ calls[i].pc = "finally"
    /\ _connecting' = IF calls[i].error = NoError THEN FALSE ELSE _connecting
    /\ calls' = [calls EXCEPT ![i] =
           [@ EXCEPT !.pc = "done",
                     !.outcome = IF calls[i].error = NoError THEN "resolved"
                                 ELSE "raised"]]
    /\ running' = 0
    /\ UNCHANGED <<_address, _sdk, handshaken>>

\* finally { this._connecting = false; } and the settling of connect's promise.
connectFinally(i) ==
    /\ running = i
    /\ calls[i].op = "connect"
    /\ calls[i].pc = "finally"
    /\ _connecting' = FALSE
    /\ calls' = [calls EXCEPT ![i] =
           [@ EXCEPT !.pc = "done",
                     !.outcome = IF calls[i].error = NoError THEN "resolved"
                                 ELSE "raised"]]
    /\ running' = 0
    /\ UNCHANGED <<_address, _sdk, handshaken>>

\* DisconnectCatch re-raising the failure after the notification, as the catch
\* blocks of connect and of the invocation calls do.
DisconnectCatchRethrows(c, cause) ==
    [Emit(c, "error", "WalletDisconnectionError")
        EXCEPT !.step = "disconnect", !.cause = cause,
               !.error = "WalletDisconnectionError"]

\* catch (error) { this.emit('error', new WalletDisconnectionError(...)); } of
\* disconnect: the failure is notified and not raised.
DisconnectCatch(c, cause) ==
    [Emit(c, "error", "WalletDisconnectionError")
        EXCEPT !.step = "disconnect", !.cause = cause]

\* disconnect with the final notification skipped when no SDK is held.
disconnectSilentWithoutSdk(i) ==
    /\ CanIssue(i)
    /\ IF _sdk # undefined
       THEN calls' = [calls EXCEPT ![i] =
                [SdkCall(NewCall("disconnect"), "disconnect")
                    EXCEPT !.sdk = _sdk, !.pc = "disconnect"]]
       ELSE calls' = [calls EXCEPT ![i] =
                [NewCall("disconnect") EXCEPT !.pc = "done", !.outcome = "resolved"]]
    /\ UNCHANGED <<_address, _connecting, _sdk, running, handshaken>>

\* disconnect(), from the call to the await of sdk.disconnect(), or to its end
\* when no SDK is held.
disconnect(i) ==
    /\ CanIssue(i)
    /\ IF _sdk # undefined
       THEN calls' = [calls EXCEPT ![i] =
                [SdkCall(NewCall("disconnect"), "disconnect")
                    EXCEPT !.sdk = _sdk, !.pc = "disconnect"]]
       ELSE calls' = [calls EXCEPT ![i] =
                [Emit(NewCall("disconnect"), "disconnect", NoError)
                    EXCEPT !.pc = "done", !.outcome = "resolved"]]
    /\ UNCHANGED <<_address, _connecting, _sdk, running, handshaken>>

\* disconnect(), resumed when sdk.disconnect() settles.
disconnectSettled(i) ==
    /\ CanResume(i, "disconnect", "disconnect")
    /\ \E ok \in BOOLEAN :
         IF ok
         THEN /\ _address' = null
              /\ _sdk' = undefined
              /\ calls' = [calls EXCEPT ![i] =
                     [Emit(@, "disconnect", NoError)
                         EXCEPT !.pc = "done", !.outcome = "resolved"]]
         ELSE /\ calls' = [calls EXCEPT ![i] =
                     [Emit(DisconnectCatch(@, "Error"), "disconnect", NoError)
                         EXCEPT !.pc = "done", !.outcome = "resolved"]]
              /\ UNCHANGED <<_address, _sdk>>
    /\ UNCHANGED <<_connecting, running, handshaken>>

\* response.result.error?.message and response.result.error?.code
ErrorMessage(result) ==
    IF result.error = NoErrorObject THEN "undefined" ELSE result.error.message

ErrorCode(result) ==
    IF result.error = NoErrorObject THEN -1 ELSE result.error.code

_responseToReadResult(response) ==
    IF response.result.state = "HALT"
    THEN [status |-> "success", data |-> response.result]
    ELSE [status |-> "error", message |-> ErrorMessage(response.result),
          code |-> ErrorCode(response.result)]

\* _responseToWriteResult drifted from its read twin: the error code is lost.
_responseToWriteResultWithoutCode(response) ==
    IF response.result.state = "HALT"
    THEN [status |-> "success", data |-> response.result]
    ELSE [status |-> "error", message |-> ErrorMessage(response.result),
          code |-> -1]

_responseToWriteResult(response) ==
    IF response.result.state = "HALT"
    THEN [status |-> "success", data |-> response.result]
    ELSE [status |-> "error", message |-> ErrorMessage(response.result),
          code |-> ErrorCode(response.result)]

\* The shared shape of the four invocation calls, from the call to the await
\* of the SDK method, or to the throw when no SDK is held.
InvokeStart(i, op, method) ==
    /\ CanIssue(i)
    /\ IF _sdk = undefined
       THEN calls' = [calls EXCEPT ![i] =
                [NewCall(op) EXCEPT !.pc = "done", !.outcome = "raised",
                                    !.error = "WalletNotConnectedError"]]
       ELSE calls' = [calls EXCEPT ![i] =
                [SdkCall(NewCall(op), method) EXCEPT !.sdk = _sdk, !.pc = method]]
    /\ UNCHANGED <<_address, _connecting, _sdk, running, handshaken>>

\* catch (error) { this.emit('error', error); throw error; } of an invocation.
InvokeCatch(c, error) ==
    [Emit(c, "error", error) EXCEPT !.pc = "done", !.outcome = "raised",
                                    !.error = error]

InvokeReturn(c, response, result) ==
    [c EXCEPT !.pc = "done", !.outcome = "resolved", !.response = response,
              !.result = result]

invokeRead(i) == InvokeStart(i, "invokeRead", "testInvoke")

invokeReadSettled(i) ==
    /\ CanResume(i, "invokeRead", "testInvoke")
    /\ \/ \E response \in Responses :
            calls' = [calls EXCEPT ![i] = InvokeReturn(@, response,
                                                       _responseToReadResult(response))]
       \/ \E failure \in InvokeFailures :
            calls' = [calls EXCEPT ![i] = InvokeCatch(@, failure)]
    /\ UNCHANGED <<_address, _connecting, _sdk, running, handshaken>>

invokeReadMulti(i) == InvokeStart(i, "invokeReadMulti", "multiTestInvoke")

invokeReadMultiSettled(i) ==
    /\ CanResume(i, "invokeReadMulti", "multiTestInvoke")
    /\ \/ \E response \in Responses :
            calls' = [calls EXCEPT ![i] = InvokeReturn(@, response,
                                                       _responseToReadResult(response))]
       \/ \E failure \in InvokeFailures :
            calls' = [calls EXCEPT ![i] = InvokeCatch(@, failure)]
    /\ UNCHANGED <<_address, _connecting, _sdk, running, handshaken>>

invoke(i) == InvokeStart(i, "invoke", "invokeFunction")

\* invokeSettled treating a failed invocation as a lost connection: the catch
\* clears the address and the SDK handle before it notifies.
invokeSettledDropsConnection(i) ==
    /\ CanResume(i, "invoke", "invokeFunction")
    /\ \/ /\ \E response \in Responses :
               calls' = [calls EXCEPT ![i] = InvokeReturn(@, response,
                                                          _responseToWriteResult(response))]
          /\ UNCHANGED <<_address, _sdk>>
       \/ /\ \E failure \in InvokeFailures :
               calls' = [calls EXCEPT ![i] = InvokeCatch(@, failure)]
          /\ _address' = null
          /\ _sdk' = undefined
    /\ UNCHANGED <<_connecting, running, handshaken>>

invokeSettled(i) ==
    /\ CanResume(i, "invoke", "invokeFunction")
    /\ \/ \E response \in Responses :
            calls' = [calls EXCEPT ![i] = InvokeReturn(@, response,
                                                       _responseToWriteResult(response))]
       \/ \E failure \in InvokeFailures :
            calls' = [calls EXCEPT ![i] = InvokeCatch(@, failure)]
    /\ UNCHANGED <<_address, _connecting, _sdk, running, handshaken>>

invokeMulti(i) == InvokeStart(i, "invokeMulti", "multiInvoke")

invokeMultiSettled(i) ==
    /\ CanResume(i, "invokeMulti", "multiInvoke")
    /\ \/ \E response \in Responses :
            calls' = [calls EXCEPT ![i] = InvokeReturn(@, response,
                                                       _responseToWriteResult(response))]
       \/ \E failure \in InvokeFailures :
            calls' = [calls EXCEPT ![i] = InvokeCatch(@, failure)]
    /\ UNCHANGED <<_address, _connecting, _sdk, running, handshaken>>

\* _disconnected(), run with the adapter as its receiver.
_disconnected(i) ==
    /\ CanDeliver(i)
    /\ IF _sdk # undefined
       THEN /\ _address' = null
            /\ _sdk' = undefined
            /\ calls' = [calls EXCEPT ![i] =
                   [Emit(Emit(NewCall("_disconnected"), "error", "WalletDisconnectedError"),
                         "disconnect", NoError)
                       EXCEPT !.sdk = _sdk, !.pc = "done", !.outcome = "resolved"]]
       ELSE /\ calls' = [calls EXCEPT ![i] =
                   [NewCall("_disconnected") EXCEPT !.pc = "done", !.outcome = "resolved"]]
            /\ UNCHANGED <<_address, _sdk>>
    /\ UNCHANGED <<_connecting, running, handshaken>>

\* Some connect call has subscribed its callbacks to the SDK's events.
Subscribed ==
    \E j \in CallIds :
        /\ calls[j].op = "connect"
        /\ \E k \in 1..Len(calls[j].events) : calls[j].events[k].name = "connect"

\* The SDK's session-deletion event calling the subscribed onDeleted callback.
\* connect passes `this._disconnected` unbound, so the receiver is not the
\* adapter: called as a method of the callbacks object it finds no `_sdk` and
\* returns; called as a plain function it throws a TypeError inside the SDK.
\* Either way the adapter is left as it is and nothing is emitted.
onDeleted(i) ==
    /\ CanDeliver(i)
    /\ Subscribed
    /\ \E receiver \in {"callbacks", "undefined"} :
         calls' = [calls EXCEPT ![i] =
             IF receiver = "callbacks"
             THEN [NewCall("onDeleted") EXCEPT !.pc = "done", !.outcome = "resolved"]
             ELSE [NewCall("onDeleted") EXCEPT !.pc = "done", !.outcome = "raised",
                                               !.error = "TypeError"]]
    /\ UNCHANGED <<_address, _connecting, _sdk, running, handshaken>>

Next ==
    \E i \in CallIds :
        \/ connect(i)
        \/ connectInitClientSettled(i)
        \/ connectHandshakeSettled(i)
        \/ connectFinally(i)
        \/ disconnect(i)
        \/ disconnectSettled(i)
        \/ invokeRead(i)
        \/ invokeReadSettled(i)
        \/ invokeReadMulti(i)
        \/ invokeReadMultiSettled(i)
        \/ invoke(i)
        \/ invokeSettled(i)
        \/ invokeMulti(i)
        \/ invokeMultiSettled(i)
        \/ _disconnected(i)
        \/ onDeleted(i)

Spec == Init /\ [][Next]_vars

\* Every SDK call that connect awaits settles, and a connect call that has
\* emitted its notification runs its finally block.
ConnectFairness ==
    \A i \in CallIds :
        /\ WF_vars(connectInitClientSettled(i))
        /\ WF_vars(connectHandshakeSettled(i))
        /\ WF_vars(connectFinally(i))

\* The calls that read or write the connection state.  The invocation calls
\* only read _sdk and write nothing, so they are left out of the fair
\* specification, whose behaviours are those of connect, disconnect and the
\* forced-disconnect path under every interleaving.
LifecycleNext ==
    \E i \in CallIds :
        \/ connect(i)
        \/ connectInitClientSettled(i)
        \/ connectHandshakeSettled(i)
        \/ connectFinally(i)
        \/ disconnect(i)
        \/ disconnectSettled(i)
        \/ _disconnected(i)
        \/ onDeleted(i)

FairSpec == Init /\ [][LifecycleNext]_vars /\ ConnectFairness

(***************************************************************************)
(* Properties                                                              *)
(***************************************************************************)

InvokeOps == {"invokeRead", "invokeReadMulti", "invoke", "invokeMulti"}

\* The call was made while `connected` or `connecting` was true.
MadeWhileBusy(c) == c.pre.connected \/ c.pre.connecting

\* The connect call went past the guard: it created an SDK instance.
PassedGuard(c) == c.op = "connect" /\ c.sdkCalls # <<>>

\* The connect call met no failure at any of its steps.
SucceededAtEveryStep(c) ==
    /\ c.op = "connect"
    /\ c.pc \in {"finally", "done"}
    /\ c.sdkCalls = <<"new", "initClient", "connect", "getAccountAddress",
                      "subscribeToEvents">>
    /\ c.error = NoError

\* Call i settles in this step.
Completes(i) == calls[i].pc # "done" /\ calls'[i].pc = "done"

ErrorEvent(error) == [name |-> "error", arg |-> error]
ConnectEvent == [name |-> "connect", arg |-> NoError]

\* C1 (as claimed): in every reachable state, `connected` is true if and only
\* if both an SDK handle (_sdk) and an account address (_address, non-null)
\* are held.
C1_ConnectedIffBothHeld ==
    connected <=> (_sdk # undefined /\ _address # null)

\* C2 (as claimed): every invocation call made while `connected` is false
\* fails at once with the not-connected failure and makes no SDK call.
C2_InvocationWhileNotConnected ==
    \A i \in CallIds :
        (calls[i].op \in InvokeOps /\ ~calls[i].pre.connected)
            => /\ calls[i].pc = "done"
               /\ calls[i].outcome = "raised"
               /\ calls[i].error = "WalletNotConnectedError"
               /\ calls[i].sdkCalls = <<>>

\* C3 (as claimed): in every reachable state the address is non-null if and
\* only if an SDK handle is held.
C3_AddressIffSdk ==
    (_address # null) <=> (_sdk # undefined)

\* C4: a connect call made while `connecting` or `connected` is true makes no
\* SDK call, emits no notification and resolves without raising.
C4_BusyConnectDoesNothing ==
    \A i \in CallIds :
        (calls[i].op = "connect" /\ MadeWhileBusy(calls[i]))
            => /\ calls[i].sdkCalls = <<>>
               /\ calls[i].events = <<>>
               /\ calls[i].error = NoError
               /\ calls[i].pc \in {"finally", "done"}
               /\ calls[i].pc = "done" => calls[i].outcome = "resolved"

\* C4 witness: one connect call made while connecting and one made while
\* connected have both settled, and so has one made by a listener of the
\* `connect` notification, with both true.
C4_Witness ==
    /\ \E k \in CallIds : /\ calls[k].op = "connect"
                          /\ calls[k].pre.connecting /\ calls[k].pre.connected
                          /\ calls[k].pc = "done"
    /\ \E i \in CallIds : /\ calls[i].op = "connect"
                          /\ calls[i].pre.connecting
                          /\ calls[i].pc = "done"
    /\ \E j \in CallIds : /\ calls[j].op = "connect"
                          /\ calls[j].pre.connected
                          /\ calls[j].pc = "done"

\* Call i is made in this step.
Starts(i) == calls[i].pc = "idle" /\ calls'[i].pc # "idle"

\* C5 (as claimed): a connect call made while `connecting` or `connected` is
\* true leaves _address, _sdk and _connecting as they were, from the moment it
\* is made to the moment it resolves.
C5_BusyConnectIsNoOp ==
    [][\A i \in CallIds :
          ((Starts(i) \/ Completes(i))
              /\ calls'[i].op = "connect" /\ MadeWhileBusy(calls'[i]))
              => UNCHANGED <<_address, _sdk, _connecting>>]_vars

\* C6 (as claimed): in no reachable state, the one seen by the listeners of
\* the `connect` notification included, are `connecting` and `connected`
\* both true.
C6_ExactlyOneConnectionState ==
    ~(connecting /\ connected)

\* C7 (as claimed): a connect call that succeeds at every step emits exactly
\* one `connect` notification and no `error` notification, and `connected` is
\* true when it resolves.
C7_SuccessfulConnect ==
    /\ [](\A i \in CallIds :
            SucceededAtEveryStep(calls[i])
                => /\ calls[i].events = <<ConnectEvent>>
                   /\ calls[i].pc = "done" => calls[i].outcome = "resolved")
    /\ [][\A i \in CallIds :
            (Completes(i) /\ SucceededAtEveryStep(calls'[i])) => connected']_vars

\* C8: when a connect call that passed the guard settles, resolving or
\* raising, `connecting` is false right afterwards.
C8_ConnectingClearedOnExit ==
    [][\A i \in CallIds :
          (Completes(i) /\ PassedGuard(calls'[i])) => ~connecting']_vars

\* C8 witness: one connect call that passed the guard has raised and another
\* has resolved, and `connecting` is false.
C8_Witness ==
    /\ ~connecting
    /\ \E i \in CallIds : PassedGuard(calls[i]) /\ calls[i].outcome = "raised"
    /\ \E j \in CallIds : PassedGuard(calls[j]) /\ calls[j].outcome = "resolved"

\* The SDK rejected initClient or connect with a failure that is not already
\* a wallet error.
HandshakeFailed(c) ==
    /\ c.op = "connect"
    /\ c.step \in {"initClient", "connect"}
    /\ ~IsWalletError(c.cause)

\* C9 (as claimed, for failures that are not already wallet errors): a connect
\* call whose initClient or connect fails emits exactly one `error`
\* notification carrying a connection-establishment failure, raises it, and
\* leaves `connected` and `connecting` false afterwards.
C9_HandshakeFailure ==
    /\ [](\A i \in CallIds :
            HandshakeFailed(calls[i])
                => /\ calls[i].events = <<ErrorEvent("WalletConnectionError")>>
                   /\ calls[i].error = "WalletConnectionError"
                   /\ calls[i].pc = "done" => calls[i].outcome = "raised")
    /\ [][\A i \in CallIds :
            (Completes(i) /\ HandshakeFailed(calls'[i]))
                => ~connected' /\ ~connecting']_vars

\* C10 (as claimed): a connect call whose handshake succeeds but whose SDK has
\* no session emits and raises an account-retrieval failure, never a
\* connection-establishment failure, and leaves `connected` false.
C10_NoSession ==
    /\ [](\A i \in CallIds :
            (calls[i].op = "connect" /\ calls[i].step = "session")
                => /\ calls[i].events = <<ErrorEvent("WalletAccountError")>>
                   /\ calls[i].error = "WalletAccountError"
                   /\ calls[i].pc = "done" => calls[i].outcome = "raised")
    /\ [][\A i \in CallIds :
            (Completes(i) /\ calls'[i].op = "connect" /\ calls'[i].step = "session")
                => ~connected']_vars

DisconnectEvent == [name |-> "disconnect", arg |-> NoError]

\* The number of notifications named `name` that call c has emitted.
CountEvents(c, name) ==
    Cardinality({k \in 1..Len(c.events) : c.events[k].name = name})

\* C11: every disconnect call emits the `disconnect` notification exactly
\* once, as its last notification, whether or not an SDK handle was held and
\* whether or not the remote teardown succeeded; before it settles it has
\* emitted nothing.
C11_DisconnectEmitsOnce ==
    \A i \in CallIds :
        calls[i].op = "disconnect"
            => IF calls[i].pc = "done"
               THEN /\ CountEvents(calls[i], "disconnect") = 1
                    /\ calls[i].events[Len(calls[i].events)] = DisconnectEvent
               ELSE calls[i].events = <<>>

\* C11 witness: a disconnect call made with no SDK held and one whose remote
\* teardown failed have both settled.
C11_Witness ==
    /\ \E i \in CallIds : /\ calls[i].op = "disconnect"
                          /\ calls[i].pc = "done"
                          /\ calls[i].sdkCalls = <<>>
    /\ \E j \in CallIds : /\ calls[j].op = "disconnect"
                          /\ calls[j].pc = "done"
                          /\ calls[j].step = "disconnect"

\* C12: when the remote teardown fails, disconnect emits one `error`
\* notification carrying a disconnection failure, then `disconnect`, and
\* resolves without raising.
C12_TeardownFailure ==
    \A i \in CallIds :
        (calls[i].op = "disconnect" /\ calls[i].step = "disconnect")
            => /\ calls[i].events = <<ErrorEvent("WalletDisconnectionError"),
                                      DisconnectEvent>>
               /\ calls[i].pc = "done"
               /\ calls[i].outcome = "resolved"
               /\ calls[i].error = NoError

\* C12 witness: a disconnect call whose remote teardown failed has settled
\* while the adapter is connected.
C12_Witness ==
    /\ connected
    /\ \E i \in CallIds : /\ calls[i].op = "disconnect"
                          /\ calls[i].step = "disconnect"
                          /\ calls[i].sdkCalls = <<"disconnect">>
                          /\ calls[i].pc = "done"

\* C13 (as claimed): every failure that connect or an invocation call raises,
\* the not-connected failure included, has been notified first by exactly one
\* `error` notification carrying that failure.
C13_NotifyThenPropagate ==
    \A i \in CallIds :
        (calls[i].op \in InvokeOps \cup {"connect"} /\ calls[i].outcome = "raised")
            => calls[i].events = <<ErrorEvent(calls[i].error)>>

\* The forced-disconnect path: the SDK's session-deletion event calling the
\* subscribed callback, or _disconnected called on the adapter.
ForcedDisconnectOps == {"onDeleted", "_disconnected"}

\* C14 (as claimed): the forced-disconnect path run while an SDK handle is held
\* clears _address and _sdk and emits `error` (unexpected disconnection) then
\* `disconnect`; run with none held it changes nothing and emits nothing.
C14_ForcedDisconnect ==
    [][\A i \in CallIds :
          (Starts(i) /\ calls'[i].op \in ForcedDisconnectOps)
              => IF _sdk # undefined
                 THEN /\ _address' = null
                      /\ _sdk' = undefined
                      /\ calls'[i].events = <<ErrorEvent("WalletDisconnectedError"),
                                              DisconnectEvent>>
                 ELSE /\ UNCHANGED <<_address, _sdk, _connecting>>
                      /\ calls'[i].events = <<>>]_vars

\* The invocation result the claim expects for a remote execution result:
\* success with the whole raw result when its state is HALT, otherwise error
\* with the message and code of its error object (undefined when absent).
ExpectedResult(raw) ==
    IF raw.state = "HALT"
    THEN [status |-> "success", data |-> raw]
    ELSE [status |-> "error",
          message |-> IF raw.error = NoErrorObject THEN "undefined"
                      ELSE raw.error.message,
          code |-> IF raw.error = NoErrorObject THEN -1 ELSE raw.error.code]

\* C15: for every remote execution result the four invocation calls return
\* success with the full raw result exactly when its state is HALT and
\* otherwise error with its message and code, and the read and the write
\* translation agree on every result.
C15_ResultTranslation ==
    /\ \A i \in CallIds :
          (calls[i].op \in InvokeOps /\ calls[i].outcome = "resolved")
              => /\ calls[i].result = ExpectedResult(calls[i].response.result)
                 /\ calls[i].result.status = "success"
                        <=> calls[i].response.result.state = "HALT"
    /\ \A response \in Responses :
          _responseToReadResult(response) = _responseToWriteResult(response)

\* C15 witness: a read invocation has returned success with the raw result and
\* a write invocation has returned error with message "m" and code 7.
C15_Witness ==
    /\ \E i \in CallIds :
          /\ calls[i].op \in {"invokeRead", "invokeReadMulti"}
          /\ calls[i].outcome = "resolved"
          /\ calls[i].result.status = "success"
          /\ calls[i].result.data = calls[i].response.result
    /\ \E j \in CallIds :
          /\ calls[j].op \in {"invoke", "invokeMulti"}
          /\ calls[j].outcome = "resolved"
          /\ calls[j].result = [status |-> "error", message |-> "m", code |-> 7]

\* C16: if every SDK call awaited by connect settles, then whenever
\* `connecting` is true it is later false, the adapter being then connected or
\* disconnected.
C16_ConnectingIsTransient ==
    connecting ~> (~connecting /\ running = 0)

\* C16 witness: a connect call that set `connecting` has settled and
\* `connecting` is false again, with the adapter connected.
C16_Witness ==
    /\ ~connecting
    /\ connected
    /\ running = 0
    /\ \E i \in CallIds : PassedGuard(calls[i]) /\ calls[i].pc = "done"

\* C17 (as claimed): `connected` becomes true only in a step of a connect call
\* that succeeds at every step and emits `connect`; a connect call that fails
\* at any step emits `error`, raises, and leaves `connected` false.
C17_ConnectedOnlyOnFullSuccess ==
    /\ [][(~connected /\ connected')
            => \E i \in CallIds : /\ calls'[i] # calls[i]
                                  /\ SucceededAtEveryStep(calls'[i])
                                  /\ calls'[i].events = <<ConnectEvent>>]_vars
    /\ [][\A i \in CallIds :
            (Completes(i) /\ calls'[i].op = "connect" /\ calls'[i].error # NoError)
                => /\ calls'[i].events = <<ErrorEvent(calls'[i].error)>>
                   /\ calls'[i].outcome = "raised"
                   /\ ~connected']_vars

\* Call i takes a step.
Steps(i) == calls'[i] # calls[i]

\* C18: no step of an invocation call, whether it returns a success or an
\* error result or raises, changes _address, _sdk or _connecting; every change
\* of them is a step of connect, disconnect or the forced-disconnect handler.
C18_InvocationsLeaveStateAlone ==
    /\ [][\A i \in CallIds :
            (Steps(i) /\ calls'[i].op \in InvokeOps)
                => UNCHANGED <<_address, _sdk, _connecting>>]_vars
    /\ [][(<<_address, _sdk, _connecting>>' # <<_address, _sdk, _connecting>>)
            => \E i \in CallIds :
                  /\ Steps(i)
                  /\ calls'[i].op \in {"connect", "disconnect", "_disconnected"}]_vars

\* C18 witness: with the adapter connected, one invocation call has returned a
\* result and another has raised an SDK failure.
C18_Witness ==
    /\ connected
    /\ _sdk # undefined
    /\ \E i \in CallIds : /\ calls[i].op \in InvokeOps
                          /\ calls[i].outcome = "resolved"
    /\ \E j \in CallIds : /\ calls[j].op \in InvokeOps
                          /\ calls[j].outcome = "raised"
                          /\ calls[j].sdkCalls # <<>>

\* The connect calls suspended in initClient or in connect.
InFlight == {i \in CallIds : calls[i].op = "connect"
                              /\ calls[i].pc \in {"initClient", "connect"}}

\* C19 (as claimed): at most one connect call is suspended in initClient or
\* connect at a time.
C19_OneAttemptInFlight ==
    Cardinality(InFlight) <= 1

\* C20 (as claimed): every failure that connect emits and raises is one of the
\* adapter's wallet-error kinds, and it is the failure notified.
C20_ConnectRaisesWalletErrors ==
    \A i \in CallIds :
        (calls[i].op = "connect" /\ calls[i].error # NoError)
            => /\ IsWalletError(calls[i].error)
               /\ calls[i].events = <<ErrorEvent(calls[i].error)>>

====
